---- MODULE Spec2Model ----
(***************************************************************************)
(* Lowering of inline-assembly statements (src/d/asmstmt.cc):              *)
(* AsmStatement::toIR turns the AsmCode built by semantic analysis into    *)
(* one ASM_EXPR (template, outputs, inputs, clobbers) added to the IRState,*)
(* optionally followed by a private label.                                 *)
(*                                                                         *)
(* Positions are 0-based as in the source; sequences are 1-based, so the  *)
(* operand at source index i is args[i+1] and the byte at p is tpl[p+1].   *)
(***************************************************************************)
EXTENDS Integers, Sequences, FiniteSets, TLC

(***************************************************************************)
(* Bounds of the model                                                     *)
(***************************************************************************)
MaxTplArgs == 2      \* operands of the statements whose template varies
MaxTplLen == 4       \* bytes of a varying template
MaxFullArgs == 2     \* operands of the statements whose operand kinds vary
MaxIOArgs == 4       \* operands of the statements whose output/input pattern varies
MaxBody == 2         \* statements of a function body
MaxExtArgs == 2      \* operands of an extended asm statement
MaxExtClobbers == 2  \* clobbers of an extended asm statement

(***************************************************************************)
(* Program constants                                                       *)
(***************************************************************************)
ArgMapSize == 10     \* int arg_map[10]
NumRegBits == 32     \* for (int i = 0; i < 32; i++)
ByteRange == 256     \* a char of the template
PercentChar == 37    \* '%'
ZeroChar == 48       \* '0'
NineChar == 57       \* '9'
LetterA == 97        \* 'a', an assembler modifier
ColonChar == 58      \* ':'

Arg_Integer == "Arg_Integer"
Arg_Pointer == "Arg_Pointer"
Arg_Memory == "Arg_Memory"
Arg_FrameRelative == "Arg_FrameRelative"
Arg_LocalSize == "Arg_LocalSize"
Arg_Dollar == "Arg_Dollar"
AsmArgType ==
    {Arg_Integer, Arg_Pointer, Arg_Memory, Arg_FrameRelative, Arg_LocalSize, Arg_Dollar}

Mode_Input == "Mode_Input"
Mode_Output == "Mode_Output"
Mode_Update == "Mode_Update"
AsmArgMode == {Mode_Input, Mode_Output, Mode_Update}

\* the most negative HOST_WIDE_INT, of a host where it has 32 bits
HOST_WIDE_INT_MIN == (0 - 2147483647) - 1

NULL_TREE == [id |-> 0, str |-> ""]

\* build_string: a fresh STRING_CST; id is the identity of the tree node
build_string(id, s) == [id |-> id, str |-> s]

\* regInfo[i].gccName: the name at index i of the target register table
regInfo(i) == [id |-> 0, str |-> "r" \o ToString(i)]

(***************************************************************************)
(* Expressions, operands, AsmCode, statements                              *)
(***************************************************************************)
\* an Expression: its op, an identity, and what getFrameRelativeValue finds
\* for the variable it names
Expr(op, id, frOk, frOff) == [op |-> op, id |-> id, frOk |-> frOk, frOff |-> frOff]

AsmArg(type, expr, mode) == [type |-> type, expr |-> expr, mode |-> mode]

AsmCode(tpl, args, moreRegs, dollarLabel, clobbersMemory) ==
    [insnTemplate |-> tpl, insnTemplateLen |-> Len(tpl), args |-> args,
     moreRegs |-> moreRegs, dollarLabel |-> dollarLabel,
     clobbersMemory |-> clobbersMemory]

\* an AsmStatement after semantic analysis
AsmStatement(asmcode, regs) ==
    [asmcode |-> asmcode, regs |-> regs, refparam |-> 0, naked |-> 0]

\* AsmStatement::AsmStatement: a statement as the constructor leaves it
NewAsmStatement == [asmcode |-> 0, regs |-> {}, refparam |-> 0, naked |-> 0]

(***************************************************************************)
(* State                                                                   *)
(***************************************************************************)
VARIABLES
    body,            \* the AsmStatements of the function, in lowering order
    heap,            \* the AsmCode objects, by address (asmcode = 0 is null)
    naked,           \* irs->func->naked
    x_frame_offset,  \* cfun->x_frame_offset
    cur,             \* index in body of the statement being lowered
    pc,              \* position of the lowering
    statics,         \* i_cns, p_cns, m_cns, mw_cns, mrw_cns, memory_name
    treeSerial,      \* number of STRING_CST nodes built so far
    inputs, outputs, clobbers,      \* the three ListMakers of toIR
    clobbers_mem, input_idx, n_outputs, arg_map, i,
    pct, p,          \* the template scan
    entryTemplate,   \* history: code->insnTemplate as it was when toIR was entered
    irs,             \* expressions added to the IRState by addExp
    errors,          \* diagnostics reported so far
    aborted,         \* a failed assert has aborted the process
    ext,             \* the ExtAsmStatement being compiled, if any
    tree_clobbers,   \* the third ListMaker of ExtAsmStatement::toIR
    D_NO_INLINE_ASM_AT_ALL   \* the build has no machine-specific assembler

world == <<body, naked, x_frame_offset, D_NO_INLINE_ASM_AT_ALL>>
lists == <<inputs, outputs, clobbers>>
argvars == <<clobbers_mem, input_idx, n_outputs, arg_map, i>>
scanvars == <<pct, p>>
locals == <<lists, argvars, scanvars, entryTemplate>>
extvars == <<ext, tree_clobbers>>
vars == <<world, heap, cur, pc, statics, treeSerial, locals, irs, errors, aborted, extvars>>

this == body[cur]
code == heap[this.asmcode]
dim == Len(code.args)

(***************************************************************************)
(* Inputs: what semantic analysis can hand to the lowering                 *)
(***************************************************************************)
SeqsUpTo(S, n) == UNION {[1..k -> S] : k \in 0..n}

\* the shapes of expression each operand kind is built with
ArgOps(type) ==
    CASE type = Arg_Pointer -> {"TOKvar", "TOKdsymbol"}
      [] type = Arg_Memory -> {"TOKvar", "TOKfloat64", "TOKother"}
      [] type = Arg_FrameRelative -> {"TOKvar"}
      [] OTHER -> {"TOKother"}

\* a variable that is frame relative sits at frame offset -8
FrameOks(type) == IF type = Arg_FrameRelative THEN BOOLEAN ELSE {FALSE}
FrOff(ok) == IF ok THEN 0 - 8 ELSE 0

\* every operand descriptor, before its position is known
ArgKinds ==
    {[type |-> t, mode |-> m, op |-> o, frOk |-> f] :
        t \in AsmArgType, m \in AsmArgMode,
        o \in {"TOKvar", "TOKdsymbol", "TOKfloat64", "TOKother"}, f \in BOOLEAN}
FullArgKinds == {k \in ArgKinds : k.op \in ArgOps(k.type) /\ k.frOk \in FrameOks(k.type)}

\* the operand list of descriptors ks; operand i's expression has identity i
MkArgs(ks) ==
    [k \in 1..Len(ks) |->
        AsmArg(ks[k].type, Expr(ks[k].op, k - 1, ks[k].frOk, FrOff(ks[k].frOk)),
               ks[k].mode)]

Kind(t, m) == [type |-> t, mode |-> m,
               op |-> IF t \in {Arg_Memory, Arg_FrameRelative} THEN "TOKvar" ELSE "TOKother",
               frOk |-> (t = Arg_FrameRelative)]

\* operands that differ only in being outputs or inputs
IOKinds == {Kind(Arg_Memory, Mode_Output), Kind(Arg_Integer, Mode_Input)}

TplAlphabet == {PercentChar, ZeroChar, ZeroChar + 1, LetterA}
Templates == SeqsUpTo(TplAlphabet, MaxTplLen)

\* 32-bit register masks, each written as the set of its one-bits
RegMasks == {{}, {0}, {1, 2}, {0, NumRegBits - 1}}

World(b, h, nk, fo) == [body |-> b, heap |-> h, naked |-> nk, x_frame_offset |-> fo]
OneStmt(c, regs, nk, fo) == World(<<AsmStatement(1, regs)>>, <<c>>, nk, fo)

\* (a) templates of every shape over operands of either direction
TemplateWorlds ==
    {OneStmt(AsmCode(t, MkArgs(ks), {}, 0, FALSE), {}, FALSE, 0 - 16) :
        t \in Templates, ks \in SeqsUpTo(IOKinds, MaxTplArgs)}

\* (a') every pattern of outputs and inputs, each operand named once, in order
RECURSIVE TplAll(_)
TplAll(n) == IF n = 0 THEN <<>> ELSE TplAll(n - 1) \o <<PercentChar, ZeroChar + (n - 1)>>
PatternWorlds ==
    {OneStmt(AsmCode(TplAll(Len(ks)), MkArgs(ks), {}, 0, FALSE), {}, FALSE, 0 - 16) :
        ks \in SeqsUpTo(IOKinds, MaxIOArgs)}

\* (b) operands of every kind and direction, frame relative or not
OperandKinds ==
    {Kind(t, m) : t \in AsmArgType, m \in AsmArgMode}
        \cup {[Kind(Arg_FrameRelative, m) EXCEPT !.frOk = FALSE] : m \in AsmArgMode}
OperandWorlds ==
    {OneStmt(AsmCode(<<PercentChar, ZeroChar>>, MkArgs(ks), {}, dl, FALSE), {0}, FALSE, 0 - 16) :
        ks \in SeqsUpTo(OperandKinds, MaxFullArgs), dl \in {0, 1}}

\* (b') one operand of every expression shape
ShapeWorlds ==
    {OneStmt(AsmCode(<<PercentChar, ZeroChar>>, MkArgs(<<k>>), {}, 0, FALSE), {}, FALSE, 0 - 16) :
        k \in FullArgKinds}

\* (c) every clobber request, in naked and ordinary functions
ClobberKinds == {Kind(Arg_FrameRelative, Mode_Input), Kind(Arg_FrameRelative, Mode_Output),
                 Kind(Arg_FrameRelative, Mode_Update), Kind(Arg_Memory, Mode_Output)}
ClobberWorlds ==
    {OneStmt(AsmCode(<<>>, MkArgs(ks), mr, 0, cm), r, nk, 0 - 16) :
        ks \in SeqsUpTo(ClobberKinds, 1), mr \in RegMasks, r \in RegMasks,
        cm \in BOOLEAN, nk \in BOOLEAN}

\* (d) a template digit that names no operand
StrayDigitWorlds ==
    {OneStmt(AsmCode(<<PercentChar, d>>, MkArgs(ks), {}, 0, FALSE), {}, FALSE, 0 - 16) :
        d \in {ZeroChar + 2, NineChar}, ks \in SeqsUpTo(IOKinds, 1)}

\* (e) more operands than arg_map holds
ManyArgsWorlds ==
    {OneStmt(AsmCode(<<>>, MkArgs([k \in 1..n |-> Kind(Arg_Integer, Mode_Input)]), {}, 0, FALSE),
             {}, FALSE, 0 - 16) : n \in {ArgMapSize, ArgMapSize + 1}}

\* (f) frame sizes of either sign, and the most negative one, for LocalSize
FrameSizes == {0 - 16, 0, 24, HOST_WIDE_INT_MIN}
LocalSizeWorlds ==
    {OneStmt(AsmCode(<<>>, MkArgs(<<Kind(Arg_LocalSize, m)>>), {}, 0, FALSE), {}, FALSE, fo) :
        m \in AsmArgMode, fo \in FrameSizes}

\* (g) function bodies of several statements, some sharing one AsmCode,
\*     some without code (an empty asm statement), some that fail
BodyCodes ==
    <<AsmCode(<<PercentChar, ZeroChar + 1, PercentChar, ZeroChar>>,
              MkArgs(<<Kind(Arg_Integer, Mode_Input), Kind(Arg_Memory, Mode_Output)>>),
              {}, 1, FALSE),
      AsmCode(<<PercentChar, ZeroChar>>,
              MkArgs(<<[Kind(Arg_FrameRelative, Mode_Input) EXCEPT !.frOk = FALSE]>>),
              {}, 2, FALSE),
      AsmCode(<<>>, MkArgs(<<Kind(Arg_Dollar, Mode_Input)>>), {}, 0, FALSE)>>
BodyWorlds ==
    {World(b, BodyCodes, FALSE, 0 - 16) :
        b \in {s \in SeqsUpTo({AsmStatement(a, {0}) : a \in 0..Len(BodyCodes)}, MaxBody) :
                  Len(s) >= 2}}

\* (j) a build without machine-specific assembler: semantic builds no AsmCode
NoAsmBodies == {[k \in 1..n |-> AsmStatement(0, {})] : n \in 1..MaxBody}
NoAsmWorlds == {World(b, <<>>, nk, 0 - 16) : b \in NoAsmBodies, nk \in BOOLEAN}

\* no extended asm statement
NoExt == [insnTemplate |-> NULL_TREE, args |-> <<>>, argNames |-> <<>>,
          argConstraints |-> <<>>, nOutputArgs |-> 0, clobbers |-> <<>>]

NoStatics ==
    [i_cns |-> NULL_TREE, p_cns |-> NULL_TREE, m_cns |-> NULL_TREE,
     mw_cns |-> NULL_TREE, mrw_cns |-> NULL_TREE, memory_name |-> NULL_TREE]

EmptyMap == [k \in {} |-> 0]

InitLocals ==
    /\ inputs = <<>> /\ outputs = <<>> /\ clobbers = <<>>
    /\ clobbers_mem = FALSE /\ input_idx = 0 /\ n_outputs = 0
    /\ arg_map = EmptyMap /\ i = 0
    /\ pct = FALSE /\ p = 0
    /\ entryTemplate = <<>>

\* the function, its statements and their AsmCode are as semantic analysis left
\* them; an extended asm statement, if any, is statement 0 of the function
Given(w) ==
    /\ body = w.body /\ heap = w.heap /\ naked = w.naked
    /\ x_frame_offset = w.x_frame_offset

Init ==
    /\ \/ /\ D_NO_INLINE_ASM_AT_ALL = FALSE
          /\ \/ \E w \in TemplateWorlds : Given(w)
             \/ \E w \in PatternWorlds : Given(w)
             \/ \E w \in OperandWorlds : Given(w)
             \/ \E w \in ShapeWorlds : Given(w)
             \/ \E w \in ClobberWorlds : Given(w)
             \/ \E w \in StrayDigitWorlds : Given(w)
             \/ \E w \in ManyArgsWorlds : Given(w)
             \/ \E w \in LocalSizeWorlds : Given(w)
             \/ \E w \in BodyWorlds : Given(w)
       \/ /\ D_NO_INLINE_ASM_AT_ALL = TRUE
          /\ \E w \in NoAsmWorlds : Given(w)
    /\ cur = 1
    /\ pc = "call"
    /\ statics = NoStatics
    /\ treeSerial = 0
    /\ InitLocals
    /\ irs = <<>>
    /\ errors = <<>>
    /\ aborted = FALSE
    /\ ext = NoExt
    /\ tree_clobbers = <<>>

(***************************************************************************)
(* AsmStatement::toIR, entry: the null check, the interned constants, the  *)
(* locals and the capacity assertion                                       *)
(***************************************************************************)
InternedStatics(n) ==
    [i_cns |-> build_string(n + 1, "i"), p_cns |-> build_string(n + 2, "p"),
     m_cns |-> build_string(n + 3, "m"), mw_cns |-> build_string(n + 4, "=m"),
     mrw_cns |-> build_string(n + 5, "+m"),
     memory_name |-> build_string(n + 6, "memory")]

\* if (! i_cns)
NeedsInit_Always(st) == TRUE
NeedsInit(st) == st.i_cns = NULL_TREE

ToIR_Enter ==
    /\ pc = "call"
    /\ ~D_NO_INLINE_ASM_AT_ALL
    /\ IF this.asmcode = 0
       THEN /\ pc' = "ret"
            /\ UNCHANGED <<statics, treeSerial, locals, aborted>>
       ELSE /\ IF NeedsInit(statics)
               THEN /\ statics' = InternedStatics(treeSerial)
                    /\ treeSerial' = treeSerial + 6
               ELSE UNCHANGED <<statics, treeSerial>>
            /\ inputs' = <<>> /\ outputs' = <<>> /\ clobbers' = <<>>
            /\ clobbers_mem' = code.clobbersMemory
            /\ input_idx' = 0
            /\ n_outputs' = 0
            /\ arg_map' = EmptyMap
            /\ i' = 0
            /\ UNCHANGED scanvars
            /\ entryTemplate' = code.insnTemplate
            /\ IF dim <= ArgMapSize
               THEN pc' = "args" /\ UNCHANGED aborted
               ELSE pc' = "aborted" /\ aborted' = TRUE
    /\ UNCHANGED <<world, heap, cur, irs, errors>>
    /\ UNCHANGED extvars

(***************************************************************************)
(* The operand loop: one operand per step                                  *)
(***************************************************************************)
\* the tree an operand resolves to: how it was made, from which expression,
\* and for an integer constant its value
Val(how, expr, n) == [how |-> how, of |-> expr.id, n |-> n]

\* -x on a HOST_WIDE_INT: the negation of the most negative value overflows,
\* which is undefined; the build either wraps around or traps
NegateOverflows(x) == x = HOST_WIDE_INT_MIN
OverflowOutcomes == {"wraps", "traps"}
Negate(x) == IF NegateOverflows(x) THEN HOST_WIDE_INT_MIN ELSE 0 - x

\* the inner switch on arg->mode of a Memory operand: its constraint ...
MemoryCns(mode, st) ==
    CASE mode = Mode_Input -> st.m_cns
      [] mode = Mode_Output -> st.mw_cns
      [] mode = Mode_Update -> st.mrw_cns

\* ... and whether it stays an input
MemoryIsInput_UpdateToo(mode) == mode # Mode_Output
MemoryIsInput(mode) == mode = Mode_Input

\* getFrameRelativeValue: whether the variable has an offset from the frame base
getFrameRelativeValue(expr) == expr.frOk

\* where the lowering goes after the error: return;
AfterNotFrameRelative_Label(dollarLabel) == IF dollarLabel # 0 THEN "label" ELSE "ret"
AfterNotFrameRelative(dollarLabel) == "ret"

\* if (arg->mode != Mode_Input) clobbers_mem = true;
FrameRelativeClobbersMem_Always(mode) == TRUE
FrameRelativeClobbersMem(mode) == mode # Mode_Input

\* the else branch of the frame-relative lookup: error(...); return;
NotFrameRelative_Ignored == "ok"
NotFrameRelative == "error"

\* bool is_input = true; only the Memory case assigns it again
DefaultIsInput_ByMode(mode) == mode = Mode_Input
DefaultIsInput(mode) == TRUE

\* the switch on arg->type: what the operand becomes, or how the lowering ends
ResolveArg(arg, st, frame_offset, ov) ==
    LET ok(val, cns, is_input, mem) ==
            [outcome |-> "ok", arg_val |-> val, cns |-> cns, is_input |-> is_input,
             clobbers_mem |-> mem]
        stop(how) ==
            [outcome |-> how, arg_val |-> Val("none", arg.expr, 0), cns |-> NULL_TREE,
             is_input |-> TRUE, clobbers_mem |-> FALSE]
    IN  CASE arg.type = Arg_Integer ->
                ok(Val("toElem", arg.expr, 0), st.i_cns, DefaultIsInput(arg.mode), FALSE)
          [] arg.type = Arg_Pointer ->
                IF arg.expr.op = "TOKvar"
                THEN ok(Val("addressOf Stree", arg.expr, 0), st.p_cns,
                        DefaultIsInput(arg.mode), FALSE)
                ELSE IF arg.expr.op = "TOKdsymbol"
                THEN ok(Val("addressOf getLabelTree", arg.expr, 0), st.p_cns,
                        DefaultIsInput(arg.mode), FALSE)
                ELSE stop("assert")
          [] arg.type = Arg_Memory ->
                LET val == IF arg.expr.op = "TOKvar" THEN Val("Stree", arg.expr, 0)
                           ELSE IF arg.expr.op = "TOKfloat64" THEN Val("rodc", arg.expr, 0)
                           ELSE Val("toElem", arg.expr, 0)
                IN  IF arg.mode \in AsmArgMode
                    THEN ok(val, MemoryCns(arg.mode, st), MemoryIsInput(arg.mode), FALSE)
                    ELSE stop("assert")
          [] arg.type = Arg_FrameRelative ->
                IF arg.expr.op # "TOKvar" THEN stop("assert")
                ELSE IF getFrameRelativeValue(arg.expr)
                THEN ok(Val("integerConstant", arg.expr, arg.expr.frOff), st.i_cns,
                        DefaultIsInput(arg.mode), FrameRelativeClobbersMem(arg.mode))
                ELSE stop(NotFrameRelative)
          [] arg.type = Arg_LocalSize ->
                IF frame_offset < 0 /\ NegateOverflows(frame_offset) /\ ov = "traps"
                THEN stop("trap")
                ELSE ok(Val("integerConstant", arg.expr,
                            IF frame_offset < 0 THEN Negate(frame_offset) ELSE frame_offset),
                        st.i_cns, DefaultIsInput(arg.mode), FALSE)
          [] OTHER -> stop("assert")

\* ListMaker::cons
cons_Prepend(list, purpose, value) == <<[purpose |-> purpose, value |-> value]>> \o list
cons(list, purpose, value) == Append(list, [purpose |-> purpose, value |-> value])

\* arg_map[i] = --input_idx
InputSlot(idx) == idx - 1

\* arg_map[i] = n_outputs++
OutputSlot(n) == n

Error(msg) == [stmt |-> cur, msg |-> msg]

ToIR_Arg ==
    /\ pc = "args"
    /\ i < dim
    /\ \E ov \in OverflowOutcomes :
       LET r == ResolveArg(code.args[i + 1], statics, x_frame_offset, ov)
       IN  CASE r.outcome \in {"assert", "trap"} ->
                    /\ pc' = "aborted" /\ aborted' = TRUE
                    /\ UNCHANGED <<lists, argvars, errors>>
             [] r.outcome = "error" ->
                    /\ errors' = Append(errors, Error("argument not frame relative"))
                    /\ pc' = AfterNotFrameRelative(code.dollarLabel)
                    /\ UNCHANGED <<lists, argvars, aborted>>
             [] OTHER ->
                    /\ clobbers_mem' = (clobbers_mem \/ r.clobbers_mem)
                    /\ IF r.is_input
                       THEN /\ input_idx' = InputSlot(input_idx)
                            /\ arg_map' = (i :> InputSlot(input_idx)) @@ arg_map
                            /\ inputs' = cons(inputs, r.cns, r.arg_val)
                            /\ UNCHANGED <<n_outputs, outputs>>
                       ELSE /\ n_outputs' = n_outputs + 1
                            /\ arg_map' = (i :> OutputSlot(n_outputs)) @@ arg_map
                            /\ outputs' = cons(outputs, r.cns, r.arg_val)
                            /\ UNCHANGED <<input_idx, inputs>>
                    /\ i' = i + 1
                    /\ UNCHANGED <<clobbers, pc, errors, aborted>>
    /\ UNCHANGED <<world, heap, cur, statics, treeSerial, scanvars, entryTemplate, irs>>
    /\ UNCHANGED extvars

(***************************************************************************)
(* The clobber list                                                        *)
(***************************************************************************)
\* x & m on 32-bit masks
BitAnd(x, m) == x \cap m

\* 1 << i, 0 <= i < 32
Shl1_OffByOne(k) == {k + 1}
Shl1(k) == {k}

\* 1 << (i-32), 0 <= i < 32: a shift by a negative count is undefined; the
\* shifter either masks the count to its low five bits or shifts everything out
ShiftOutcomes == {"count masked", "shifted out"}
Shl1Neg(k, ub) == IF ub = "count masked" THEN {(k - NumRegBits) % NumRegBits} ELSE {}

RECURSIVE RegClobbers(_, _, _)
\* for (int i = k; i < 32; i++) if (sel contains i) clobbers.cons(NULL_TREE, regInfo[i].gccName)
RegClobbers(list, sel, k) ==
    IF k >= NumRegBits THEN list
    ELSE RegClobbers(IF k \in sel THEN cons(list, NULL_TREE, regInfo(k)) ELSE list, sel, k + 1)

LowRegs(regs) == {k \in 0..(NumRegBits - 1) : BitAnd(regs, Shl1(k)) # {}}
MoreRegs(moreRegs, ub) == {k \in 0..(NumRegBits - 1) : BitAnd(moreRegs, Shl1Neg(k, ub)) # {}}

BuildClobbers_MemoryAlways(is_naked, regs, moreRegs, mem, memory_name, ub) ==
    LET low == IF is_naked THEN <<>> ELSE RegClobbers(<<>>, LowRegs(regs), 0)
        high == IF is_naked THEN <<>> ELSE RegClobbers(low, MoreRegs(moreRegs, ub), 0)
    IN  IF mem THEN cons(high, NULL_TREE, memory_name) ELSE high

BuildClobbers_MemoryFirst(is_naked, regs, moreRegs, mem, memory_name, ub) ==
    IF ~is_naked
    THEN LET first == IF mem THEN cons(<<>>, NULL_TREE, memory_name) ELSE <<>>
             low == RegClobbers(first, LowRegs(regs), 0)
         IN  RegClobbers(low, MoreRegs(moreRegs, ub), 0)
    ELSE <<>>

BuildClobbers(is_naked, regs, moreRegs, mem, memory_name, ub) ==
    IF ~is_naked
    THEN LET low == RegClobbers(<<>>, LowRegs(regs), 0)
             high == RegClobbers(low, MoreRegs(moreRegs, ub), 0)
         IN  IF mem THEN cons(high, NULL_TREE, memory_name) ELSE high
    ELSE <<>>

ToIR_Clobbers ==
    /\ pc = "args"
    /\ i = dim
    /\ \E ub \in ShiftOutcomes :
          clobbers' = BuildClobbers(naked, this.regs, code.moreRegs, clobbers_mem,
                                    statics.memory_name, ub)
    /\ pc' = "remap"
    /\ UNCHANGED <<world, heap, cur, statics, treeSerial, inputs, outputs, argvars,
                   scanvars, entryTemplate, irs, errors, aborted>>
    /\ UNCHANGED extvars

(***************************************************************************)
(* Remap argument numbers                                                  *)
(***************************************************************************)
\* if (arg_map[i] < 0) arg_map[i] = -arg_map[i] - 1 + n_outputs;
FinalIndex_OffByOne(v, k) == IF v < 0 THEN (0 - v) + k ELSE v
FinalIndex_FromEnd(v, k) == IF v < 0 THEN dim + v ELSE v
FinalIndex(v, k) == IF v < 0 THEN (0 - v) - 1 + k ELSE v

ToIR_Remap ==
    /\ pc = "remap"
    /\ arg_map' = [k \in 0..(dim - 1) |-> FinalIndex(arg_map[k], n_outputs)]
    /\ pct' = FALSE
    /\ p' = 0
    /\ pc' = "scan"
    /\ UNCHANGED <<world, heap, cur, statics, treeSerial, lists, clobbers_mem, input_idx,
                   n_outputs, i, entryTemplate, irs, errors, aborted>>
    /\ UNCHANGED extvars

(***************************************************************************)
(* The template scan: one byte per step, rewriting in place                *)
(***************************************************************************)
IsDigit(c) == c >= ZeroChar /\ c <= NineChar

\* what an int that was never assigned may hold
GarbageInts == {0 - 11, 0, 10}

\* arg_map[d]: the slot's value, or anything if it was never assigned
ReadArgMap(map, d) == IF d \in DOMAIN map THEN {map[d]} ELSE GarbageInts

\* *p = '0' + v, stored into a char
DigitChar_NoBase(v) == v % ByteRange
DigitChar_Letter(v) == (LetterA + v) % ByteRange
DigitChar(v) == (ZeroChar + v) % ByteRange

\* pct after a '%' was seen with pct set: else if (*p == '%') pct = false;
PctAfterPercent_StillSet(c) == TRUE
PctAfterPercent(c) == FALSE

\* pct after a byte c that is neither a digit nor '%' was seen with pct set:
\* no branch assigns it
PctAfterOther_Cleared(c) == FALSE
PctAfterOther(c) == TRUE

ToIR_Scan ==
    /\ pc = "scan"
    /\ p < code.insnTemplateLen
    /\ LET c == code.insnTemplate[p + 1]
       IN  IF pct
           THEN IF IsDigit(c)
                THEN /\ \E v \in ReadArgMap(arg_map, c - ZeroChar) :
                           heap' = [heap EXCEPT ![this.asmcode].insnTemplate[p + 1] =
                                                    DigitChar(v)]
                     /\ pct' = FALSE
                ELSE IF c = PercentChar
                THEN pct' = PctAfterPercent(c) /\ UNCHANGED heap
                ELSE pct' = PctAfterOther(c) /\ UNCHANGED heap
           ELSE IF c = PercentChar
                THEN pct' = TRUE /\ UNCHANGED heap
                ELSE UNCHANGED <<pct, heap>>
    /\ p' = p + 1
    /\ UNCHANGED <<world, cur, pc, statics, treeSerial, lists, argvars, entryTemplate,
                   irs, errors, aborted>>
    /\ UNCHANGED extvars

(***************************************************************************)
(* Emission of the ASM_EXPR and of the private label                       *)
(***************************************************************************)
\* build_string(len, bytes)
build_string_n(id, len, bytes) == [id |-> id, str |-> SubSeq(bytes, 1, len)]

\* d_build_asm_stmt, with the flags the caller sets on the node
\* (the node's location is input_location, which doLineNote set to the
\* statement's loc; a statement's loc is its index in the body)
AsmExpr(loc, insnt, outs, ins, clobs, input_p) ==
    [loc |-> loc, insn |-> insnt, outputs |-> outs, inputs |-> ins, clobbers |-> clobs,
     volatile |-> TRUE, input_p |-> input_p]

\* if (code->dollarLabel) d_expand_priv_asm_label(irs, code->dollarLabel);
AfterEmit_Always(dollarLabel) == "label"
AfterEmit(dollarLabel) == IF dollarLabel # 0 THEN "label" ELSE "ret"

ToIR_Emit ==
    /\ pc = "scan"
    /\ p = code.insnTemplateLen
    /\ irs' = Append(irs, AsmExpr(cur, build_string_n(treeSerial + 1, code.insnTemplateLen,
                                                      code.insnTemplate),
                                  outputs, inputs, clobbers, FALSE))
    /\ treeSerial' = treeSerial + 1
    /\ pc' = AfterEmit(code.dollarLabel)
    /\ UNCHANGED <<world, heap, cur, statics, locals, errors, aborted>>
    /\ UNCHANGED extvars

RECURSIVE Decimal(_)
\* the digits sprintf("%u") writes for n
Decimal(n) == IF n < 10 THEN <<ZeroChar + n>> ELSE Append(Decimal(n \div 10), ZeroChar + (n % 10))

\* sprintf(buf, ".LDASM%u", n)
d_format_priv_asm_label(n) == <<46, 76, 68, 65, 83, 77>> \o Decimal(n)

\* d_expand_priv_asm_label: the text is the label name followed by ':'
PrivAsmLabel(loc, id, n) ==
    LET buf == Append(d_format_priv_asm_label(n), ColonChar)
    IN  AsmExpr(loc, build_string_n(id, Len(buf), buf), <<>>, <<>>, <<>>, TRUE)

ToIR_Label ==
    /\ pc = "label"
    /\ irs' = Append(irs, PrivAsmLabel(cur, treeSerial + 1, code.dollarLabel))
    /\ treeSerial' = treeSerial + 1
    /\ pc' = "ret"
    /\ UNCHANGED <<world, heap, cur, statics, locals, errors, aborted>>
    /\ UNCHANGED extvars

(***************************************************************************)
(* AsmStatement::toIR of a build without machine-specific assembler        *)
(***************************************************************************)
\* sorry("assembler statements are not supported on this target");
NoAsm_toIR_Silent(errs) == errs
NoAsm_toIR(errs) ==
    Append(errs, Error("assembler statements are not supported on this target"))

ToIR_Sorry ==
    /\ pc = "call"
    /\ D_NO_INLINE_ASM_AT_ALL
    /\ errors' = NoAsm_toIR(errors)
    /\ pc' = "ret"
    /\ UNCHANGED <<world, heap, cur, statics, treeSerial, locals, irs, aborted>>
    /\ UNCHANGED extvars

(***************************************************************************)
(* The statements of a function are lowered one after the other            *)
(***************************************************************************)
NextStatement ==
    /\ pc = "ret"
    /\ IF cur < Len(body)
       THEN cur' = cur + 1 /\ pc' = "call"
       ELSE pc' = "done" /\ UNCHANGED cur
    /\ UNCHANGED <<world, heap, statics, treeSerial, locals, irs, errors, aborted>>
    /\ UNCHANGED extvars

Next ==
    \/ ToIR_Enter
    \/ ToIR_Arg
    \/ ToIR_Clobbers
    \/ ToIR_Remap
    \/ ToIR_Scan
    \/ ToIR_Emit
    \/ ToIR_Label
    \/ ToIR_Sorry
    \/ NextStatement

Spec == Init /\ [][Next]_vars

(***************************************************************************)
(* AsmStatement::syntaxCopy: the copy is lowered after the original        *)
(***************************************************************************)
\* a_s->regs = a_s->regs: the field keeps what the constructor gave it
syntaxCopy(s) ==
    LET a_s == NewAsmStatement
    IN  [a_s EXCEPT !.asmcode = s.asmcode, !.refparam = s.refparam, !.naked = s.naked,
                    !.regs = a_s.regs]

\* (k) one statement with every explicit clobber mask and flag, to be copied
CopyWorlds ==
    {World(<<[AsmStatement(1, r) EXCEPT !.refparam = rp, !.naked = sn]>>,
           <<AsmCode(<<PercentChar, ZeroChar>>, MkArgs(<<Kind(Arg_Memory, Mode_Output)>>),
                     {}, 0, cm)>>, nk, 0 - 16) :
        r \in RegMasks, rp \in {0, 1}, sn \in {0, 1}, cm \in BOOLEAN, nk \in BOOLEAN}

CopyInit ==
    /\ D_NO_INLINE_ASM_AT_ALL = FALSE
    /\ \E w \in CopyWorlds : Given(w)
    /\ cur = 1
    /\ pc = "call"
    /\ statics = NoStatics
    /\ treeSerial = 0
    /\ InitLocals
    /\ irs = <<>>
    /\ errors = <<>>
    /\ aborted = FALSE
    /\ ext = NoExt
    /\ tree_clobbers = <<>>

SyntaxCopy ==
    /\ pc = "call"
    /\ cur = 1
    /\ Len(body) = 1
    /\ body' = Append(body, syntaxCopy(body[1]))
    /\ UNCHANGED <<naked, x_frame_offset, D_NO_INLINE_ASM_AT_ALL, heap, cur, pc, statics,
                   treeSerial, locals, irs, errors, aborted, extvars>>

CopyNext ==
    \/ SyntaxCopy
    \/ ToIR_Enter
    \/ ToIR_Arg
    \/ ToIR_Clobbers
    \/ ToIR_Remap
    \/ ToIR_Scan
    \/ ToIR_Emit
    \/ NextStatement

CopySpec == CopyInit /\ [][CopyNext]_vars

(***************************************************************************)
(* The extended form: ExtAsmStatement::semantic and ExtAsmStatement::toIR  *)
(***************************************************************************)
\* an Expression of the extended form: op and sz are what it is once analysed
\* and folded, lvalue whether it is modifiable storage, str its text if it is
\* a string, passes the front-end passes applied to it so far
ExtExpr(id, op, sz, lvalue, str) ==
    [id |-> id, op |-> op, sz |-> sz, lvalue |-> lvalue, str |-> str, passes |-> <<>>]

ExtAsmStatement(insnTemplate, args, argNames, argConstraints, nOutputArgs, clobs) ==
    [insnTemplate |-> insnTemplate, args |-> args, argNames |-> argNames,
     argConstraints |-> argConstraints, nOutputArgs |-> nOutputArgs, clobbers |-> clobs]

\* a char string, a wchar string, something that is no string constant
StringShapes == {<<"TOKstring", 1>>, <<"TOKstring", 2>>, <<"TOKvar", 0>>}
CharString == <<"TOKstring", 1>>

TextExpr(id, shape, str) == ExtExpr(id, shape[1], shape[2], FALSE, str)
OperandExpr(id, lvalue) == ExtExpr(id, IF lvalue THEN "TOKvar" ELSE "TOKadd", 0, lvalue, "")

\* operand k has identity k-1, constraint text "c<k-1>", clobber k "k<k-1>"
ExtArgs(lvs) == [k \in 1..Len(lvs) |-> OperandExpr(k - 1, lvs[k])]
ExtConstraints(shapes) ==
    [k \in 1..Len(shapes) |-> TextExpr(k - 1, shapes[k], "c" \o ToString(k - 1))]
ExtClobbers(shapes) ==
    [k \in 1..Len(shapes) |-> TextExpr(k - 1, shapes[k], "k" \o ToString(k - 1))]
\* argNames->data[i] is an Identifier or null
ExtNames(named) == [k \in 1..Len(named) |-> IF named[k] THEN "n" \o ToString(k - 1) ELSE ""]
AllOf(n, v) == [k \in 1..n |-> v]

\* (h) every mix of constant and non-constant template, constraints, clobbers
ExtCheckWorlds ==
    {ExtAsmStatement(TextExpr(0, t, "insn"), ExtArgs(AllOf(Len(cs), TRUE)),
                     ExtNames(AllOf(Len(cs), FALSE)), ExtConstraints(cs), no,
                     ExtClobbers(ks)) :
        t \in StringShapes, cs \in SeqsUpTo(StringShapes, MaxExtArgs),
        ks \in SeqsUpTo(StringShapes, MaxExtClobbers), no \in {0, 1}}

\* (i) every split of the operands into outputs and inputs, named or not,
\*     modifiable or not
ExtIOWorlds ==
    UNION {{ExtAsmStatement(TextExpr(0, CharString, "insn"), ExtArgs(lvs),
                            ExtNames(named), ExtConstraints(AllOf(n, CharString)), no,
                            ExtClobbers(AllOf(nk, CharString))) :
               lvs \in [1..n -> BOOLEAN], named \in [1..n -> BOOLEAN],
               no \in 0..n, nk \in {0, MaxExtClobbers}} : n \in 0..MaxExtArgs}

ExtInit ==
    /\ \/ \E w \in ExtCheckWorlds : ext = w
       \/ \E w \in ExtIOWorlds : ext = w
    /\ tree_clobbers = <<>>
    /\ \/ /\ D_NO_INLINE_ASM_AT_ALL = FALSE
          /\ body = <<>>
       \/ /\ D_NO_INLINE_ASM_AT_ALL = TRUE
          /\ body \in {<<>>} \cup NoAsmBodies
    /\ heap = <<>> /\ naked = FALSE /\ x_frame_offset = 0
    /\ cur = 0
    /\ pc = "semantic"
    /\ statics = NoStatics
    /\ treeSerial = 0
    /\ InitLocals
    /\ irs = <<>>
    /\ errors = <<>>
    /\ aborted = FALSE

\* what the extended form leaves alone
asmvars == <<world, heap, cur, statics, clobbers, clobbers_mem, input_idx, n_outputs,
             arg_map, scanvars, entryTemplate>>

\* Expression::semantic, Expression::optimize: the passes of the front end
semantic(e) == [e EXCEPT !.passes = Append(@, "semantic")]
optimize(e, result) == [e EXCEPT !.passes = Append(@, "optimize " \o result)]

\* Expression::modifiableLvalue: reports an expression that is no lvalue
modifiableLvalue(e) == [e EXCEPT !.passes = Append(@, "modifiableLvalue")]
NotLvalue(e) == IF e.lvalue THEN <<>> ELSE <<Error("not an lvalue")>>

\* e->op != TOKstring || ((StringExp *)e)->sz != 1
NotCharString_AnyWidth(e) == e.op # "TOKstring"
NotCharString(e) == e.op # "TOKstring" \/ e.sz # 1

\* if (...) error(msg);
ErrorIf(cond, msg) == IF cond THEN <<Error(msg)>> ELSE <<>>

\* if (i < nOutputArgs), with unsigned i
IsOutputIndex_Inclusive(k, nOutputArgs) == k <= nOutputArgs
IsOutputIndex(k, nOutputArgs) == k < nOutputArgs

ExtSemantic_Template ==
    /\ pc = "semantic"
    /\ LET e == optimize(semantic(ext.insnTemplate), "WANTvalue")
       IN  /\ ext' = [ext EXCEPT !.insnTemplate = e]
           /\ errors' = errors \o ErrorIf(NotCharString(e),
                                          "instruction template must be a constant char string")
    /\ i' = 0
    /\ pc' = "sem_args"
    /\ UNCHANGED <<asmvars, treeSerial, inputs, outputs, tree_clobbers, irs, aborted>>

ExtSemantic_Arg ==
    /\ pc = "sem_args"
    /\ i < Len(ext.args)
    /\ LET e0 == semantic(ext.args[i + 1])
           isout == IsOutputIndex(i, ext.nOutputArgs)
           e == IF isout THEN modifiableLvalue(e0)
                ELSE optimize(e0, "WANTvalue|WANTinterpret")
           c == optimize(semantic(ext.argConstraints[i + 1]), "WANTvalue")
       IN  /\ ext' = [ext EXCEPT !.args[i + 1] = e, !.argConstraints[i + 1] = c]
           /\ errors' = errors \o (IF isout THEN NotLvalue(e0) ELSE <<>>)
                               \o ErrorIf(NotCharString(c),
                                          "constraint must be a constant char string")
    /\ i' = i + 1
    /\ UNCHANGED <<asmvars, pc, treeSerial, inputs, outputs, tree_clobbers, irs, aborted>>

ExtSemantic_ArgsDone ==
    /\ pc = "sem_args"
    /\ i = Len(ext.args)
    /\ i' = 0
    /\ pc' = "sem_clobbers"
    /\ UNCHANGED <<asmvars, treeSerial, inputs, outputs, extvars, irs, errors, aborted>>

ExtSemantic_Clobber ==
    /\ pc = "sem_clobbers"
    /\ i < Len(ext.clobbers)
    /\ LET e == optimize(semantic(ext.clobbers[i + 1]), "WANTvalue")
       IN  /\ ext' = [ext EXCEPT !.clobbers[i + 1] = e]
           /\ errors' = errors \o ErrorIf(NotCharString(e),
                                          "clobber specification must be a constant char string")
    /\ i' = i + 1
    /\ UNCHANGED <<asmvars, pc, treeSerial, inputs, outputs, tree_clobbers, irs, aborted>>

\* return this;
ExtSemantic_Return ==
    /\ pc = "sem_clobbers"
    /\ i = Len(ext.clobbers)
    /\ pc' = "sem_ret"
    /\ UNCHANGED <<asmvars, treeSerial, inputs, outputs, i, extvars, irs, errors, aborted>>

\* code is generated only for a program analysed without errors
GenerateCode ==
    /\ pc = "sem_ret"
    /\ pc' = IF errors # <<>> THEN "had_errors" ELSE "ext_call"
    /\ UNCHANGED <<asmvars, treeSerial, inputs, outputs, i, extvars, irs, errors, aborted>>

\* naturalString: the assertions, and the STRING_CST of the text
IsNaturalString(e) == e.op = "TOKstring" /\ e.sz = 1
naturalString(id, e) == build_string(id, e.str)

\* tree_cons(purpose, value, NULL_TREE)
tree_cons(purpose, value) == [purpose |-> purpose, value |-> value]

\* Expression::toElem
toElem(e) == [how |-> "toElem", of |-> e.id, n |-> 0]

ExtToIR_Enter ==
    /\ pc = "ext_call"
    /\ outputs' = <<>> /\ inputs' = <<>> /\ tree_clobbers' = <<>>
    /\ i' = 0
    /\ pc' = "ext_args"
    /\ UNCHANGED <<asmvars, treeSerial, ext, irs, errors, aborted>>

ExtToIR_Arg ==
    /\ pc = "ext_args"
    /\ i < Len(ext.args)
    /\ LET name == ext.argNames[i + 1]
           constr == ext.argConstraints[i + 1]
           named == name # ""
           ids == IF named THEN 2 ELSE 1
           pp == tree_cons(IF named THEN build_string(treeSerial + 1, name) ELSE NULL_TREE,
                           naturalString(treeSerial + ids, constr))
           v == toElem(ext.args[i + 1])
       IN  IF ~IsNaturalString(constr)
           THEN /\ pc' = "aborted" /\ aborted' = TRUE
                /\ UNCHANGED <<outputs, inputs, i, treeSerial>>
           ELSE /\ IF IsOutputIndex(i, ext.nOutputArgs)
                   THEN outputs' = cons(outputs, pp, v) /\ UNCHANGED inputs
                   ELSE inputs' = cons(inputs, pp, v) /\ UNCHANGED outputs
                /\ treeSerial' = treeSerial + ids
                /\ i' = i + 1
                /\ UNCHANGED <<pc, aborted>>
    /\ UNCHANGED <<asmvars, extvars, irs, errors>>

ExtToIR_ArgsDone ==
    /\ pc = "ext_args"
    /\ i = Len(ext.args)
    /\ i' = 0
    /\ pc' = "ext_clobbers"
    /\ UNCHANGED <<asmvars, treeSerial, inputs, outputs, extvars, irs, errors, aborted>>

ExtToIR_Clobber ==
    /\ pc = "ext_clobbers"
    /\ i < Len(ext.clobbers)
    /\ LET clobber == ext.clobbers[i + 1]
       IN  IF ~IsNaturalString(clobber)
           THEN /\ pc' = "aborted" /\ aborted' = TRUE
                /\ UNCHANGED <<tree_clobbers, i, treeSerial>>
           ELSE /\ tree_clobbers' = cons(tree_clobbers, NULL_TREE,
                                         naturalString(treeSerial + 1, clobber))
                /\ treeSerial' = treeSerial + 1
                /\ i' = i + 1
                /\ UNCHANGED <<pc, aborted>>
    /\ UNCHANGED <<asmvars, inputs, outputs, ext, irs, errors>>

\* IRState::doAsm: one ASM_EXPR added to the IRState
doAsm(loc, insnt, outs, ins, clobs) == AsmExpr(loc, insnt, outs, ins, clobs, FALSE)

ExtToIR_DoAsm ==
    /\ pc = "ext_clobbers"
    /\ i = Len(ext.clobbers)
    /\ IF ~IsNaturalString(ext.insnTemplate)
       THEN /\ pc' = "aborted" /\ aborted' = TRUE
            /\ UNCHANGED <<irs, treeSerial>>
       ELSE /\ irs' = Append(irs, doAsm(cur, naturalString(treeSerial + 1, ext.insnTemplate),
                                        outputs, inputs, tree_clobbers))
            /\ treeSerial' = treeSerial + 1
            /\ pc' = "ret"
            /\ UNCHANGED aborted
    /\ UNCHANGED <<asmvars, inputs, outputs, i, extvars, errors>>

ExtNext ==
    \/ ExtSemantic_Template
    \/ ExtSemantic_Arg
    \/ ExtSemantic_ArgsDone
    \/ ExtSemantic_Clobber
    \/ ExtSemantic_Return
    \/ GenerateCode
    \/ ExtToIR_Enter
    \/ ExtToIR_Arg
    \/ ExtToIR_ArgsDone
    \/ ExtToIR_Clobber
    \/ ExtToIR_DoAsm
    \/ ToIR_Sorry
    \/ NextStatement

ExtSpec == ExtInit /\ [][ExtNext]_vars

(***************************************************************************)
(* Properties                                                              *)
(***************************************************************************)
Tpl == code.insnTemplate
TplLen == code.insnTemplateLen

\* an operand the lowering is to treat as an output
IsOutputArg(arg) == arg.type = Arg_Memory /\ arg.mode \in {Mode_Output, Mode_Update}
Outs == {j \in 0..(dim - 1) : IsOutputArg(code.args[j + 1])}
Ins == (0..(dim - 1)) \ Outs

RECURSIVE Pending(_, _)
\* whether a '%' is pending after the first q bytes of t: set by a '%' met
\* with none pending, ended by the digit or the '%' that follows
Pending(t, q) ==
    IF q <= 0 THEN FALSE
    ELSE IF Pending(t, q - 1) THEN ~IsDigit(t[q]) /\ t[q] # PercentChar
    ELSE t[q] = PercentChar

RECURSIVE SpecPending(_, _)
\* the same when every byte after a pending '%' ends the escape
SpecPending(t, q) ==
    IF q <= 0 THEN FALSE
    ELSE IF SpecPending(t, q - 1) THEN FALSE
    ELSE t[q] = PercentChar

\* byte q of t is the digit of a placeholder: it directly follows a '%' that
\* is not itself the byte after a pending '%'
Placeholder(t, q) ==
    q >= 2 /\ IsDigit(t[q]) /\ t[q - 1] = PercentChar /\ ~Pending(t, q - 2)

\* bytes q-1 and q of t are an escaped percent
EscapedPercent(t, q) ==
    q >= 2 /\ t[q] = PercentChar /\ t[q - 1] = PercentChar /\ ~Pending(t, q - 2)

\* the instruction records emitted for the statement being lowered
Emitted == {k \in 1..Len(irs) : irs[k].loc = cur /\ ~irs[k].input_p}

\* operand j sits in list l, with constraint text s
Holds(l, j, s) == \E k \in 1..Len(l) : l[k].value.of = j /\ l[k].purpose.str = s
Has(l, j) == \E k \in 1..Len(l) : l[k].value.of = j

\* C1: for n <= 10 operands of which k are outputs, the arg_map left by the
\* remap loop is a bijection from {0..n-1} onto {0..n-1} that sends the
\* outputs into [0,k) and the inputs into [k,n).
C1_RemapIsBijection ==
    (pc = "scan" /\ dim <= ArgMapSize) =>
        LET n == dim
            k == Cardinality(Outs)
        IN  /\ DOMAIN arg_map = 0..(n - 1)
            /\ \A a, b \in 0..(n - 1) : arg_map[a] = arg_map[b] => a = b
            /\ {arg_map[j] : j \in 0..(n - 1)} = 0..(n - 1)
            /\ \A j \in Outs : arg_map[j] \in 0..(k - 1)
            /\ \A j \in Ins : arg_map[j] \in k..(n - 1)

C1_Witness ==
    /\ pc = "scan" /\ dim >= 3
    /\ \E a \in Ins, b \in Outs : a < b /\ arg_map[a] # a /\ arg_map[b] # b

\* C2: within the outputs, and within the inputs, the final indices keep the
\* declaration order.
C2_RemapKeepsOrder ==
    pc = "scan" =>
        \A a, b \in 0..(dim - 1) :
            (a < b /\ ((a \in Outs) <=> (b \in Outs))) => arg_map[a] < arg_map[b]

C2_Witness ==
    /\ pc = "scan"
    /\ \E a, c \in Ins, b, d \in Outs : a < b /\ b < c /\ c < d

\* C3: in the record a lowering emits, the digit written for a placeholder
\* %d (d < n) of the template as it was on entry is the position, in the
\* emitted outputs followed by the emitted inputs, of the pair appended for
\* operand d.
C3_PlaceholderNamesOperand ==
    \A k \in Emitted :
        \A q \in 1..Len(entryTemplate) :
            (Placeholder(entryTemplate, q) /\ entryTemplate[q] - ZeroChar < dim) =>
                LET d == entryTemplate[q] - ZeroChar
                    e == irs[k].insn.str[q] - ZeroChar
                    l == irs[k].outputs \o irs[k].inputs
                IN  /\ e \in 0..(Len(l) - 1)
                    /\ l[e + 1].value.of = d
                    /\ (e < Len(irs[k].outputs)) <=> (d \in Outs)

C3_Witness ==
    \E k \in Emitted :
        \E q, r \in 1..Len(entryTemplate) :
            /\ q # r
            /\ Placeholder(entryTemplate, q) /\ Placeholder(entryTemplate, r)
            /\ entryTemplate[q] - ZeroChar < dim /\ entryTemplate[r] - ZeroChar < dim
            /\ irs[k].insn.str[q] # entryTemplate[q]
            /\ irs[k].insn.str[r] # entryTemplate[r]

\* C4: a scan step at a digit d < n that directly follows an unescaped '%'
\* writes '0' + arg_map[d] over it and clears the pending flag; a digit
\* directly after such a digit is met with the flag clear and is left alone.
C4_DigitRewritten ==
    [][(pc = "scan" /\ p < TplLen) =>
          LET c == Tpl[p + 1]
              d == c - ZeroChar
          IN  /\ (p >= 1 /\ pct /\ entryTemplate[p] = PercentChar /\ IsDigit(c) /\ d < dim)
                    => (code'.insnTemplate[p + 1] = ZeroChar + arg_map[d] /\ pct' = FALSE)
              /\ (p >= 2 /\ entryTemplate[p - 1] = PercentChar /\ IsDigit(entryTemplate[p])
                         /\ IsDigit(c))
                    => (~pct /\ heap' = heap)]_vars

C4_Witness ==
    /\ pc = "scan" /\ p >= 3
    /\ Placeholder(entryTemplate, p - 1)
    /\ entryTemplate[p - 1] - ZeroChar < dim
    /\ Tpl[p - 1] # entryTemplate[p - 1]
    /\ IsDigit(entryTemplate[p]) /\ Tpl[p] = entryTemplate[p]

\* C5, as stated: a byte that is neither a digit nor '%' clears the pending
\* flag and is left alone, and the rewrite changes no byte but the one right
\* after the '%' of an escape.
C5_ModifierEndsEscape ==
    /\ [][(pc = "scan" /\ p < TplLen /\ pct /\ ~IsDigit(Tpl[p + 1])
                /\ Tpl[p + 1] # PercentChar)
            => (pct' = FALSE /\ heap' = heap)]_vars
    /\ [](pc = "scan" =>
            \A q \in 1..Len(entryTemplate) :
                Tpl[q] # entryTemplate[q] => SpecPending(entryTemplate, q - 1))

\* C5, amended: a byte that is neither a digit nor '%' is left alone and
\* leaves the flag pending, and the rewrite changes no byte but a digit met
\* while a '%' is pending.
C5_ModifierKeepsPending ==
    /\ [][(pc = "scan" /\ p < TplLen /\ pct /\ ~IsDigit(Tpl[p + 1])
                /\ Tpl[p + 1] # PercentChar)
            => (pct' = TRUE /\ heap' = heap)]_vars
    /\ [](pc = "scan" =>
            /\ Len(Tpl) = Len(entryTemplate)
            /\ \A q \in 1..Len(entryTemplate) :
                  Tpl[q] # entryTemplate[q] =>
                      (q <= p /\ IsDigit(entryTemplate[q]) /\ Pending(entryTemplate, q - 1)))

C5_Witness ==
    /\ pc = "scan"
    /\ \E q \in 3..Len(entryTemplate) :
          /\ q <= p
          /\ entryTemplate[q - 2] = PercentChar
          /\ entryTemplate[q - 1] = LetterA
          /\ Tpl[q] # entryTemplate[q]
          /\ Tpl[q - 1] = LetterA

\* C6: the second '%' of an escaped percent clears the pending flag and sets
\* none, a digit right after the pair is left alone by its scan step, and is
\* the same byte in the emitted template.
C6_EscapedPercentKept ==
    /\ [][(pc = "scan" /\ p < TplLen) =>
            /\ (p >= 1 /\ pct /\ entryTemplate[p] = PercentChar /\ Tpl[p + 1] = PercentChar)
                  => (pct' = FALSE /\ heap' = heap)
            /\ (EscapedPercent(entryTemplate, p) /\ IsDigit(Tpl[p + 1]))
                  => (pct' = FALSE /\ heap' = heap)]_vars
    /\ [](\A k \in Emitted :
            \A q \in 3..Len(entryTemplate) :
                (EscapedPercent(entryTemplate, q - 1) /\ IsDigit(entryTemplate[q]))
                    => irs[k].insn.str[q] = entryTemplate[q])

C6_Witness ==
    \E k \in Emitted :
        /\ \E q \in 3..Len(entryTemplate) :
              /\ EscapedPercent(entryTemplate, q - 1)
              /\ IsDigit(entryTemplate[q])
              /\ entryTemplate[q] - ZeroChar < dim
              /\ arg_map[entryTemplate[q] - ZeroChar] # entryTemplate[q] - ZeroChar
        /\ irs[k].insn.str = entryTemplate

\* C7: when every output is declared before every input, arg_map is the
\* identity and the scan leaves the template as it was on entry.
C7_CanonicalOrderUnchanged ==
    (pc = "scan" /\ \A a \in Outs, b \in Ins : a < b) =>
        /\ \A j \in 0..(dim - 1) : arg_map[j] = j
        /\ Tpl = entryTemplate

\* C8: in a naked function the clobber list is empty, in the lowering and in
\* every record it emits.
C8_NakedNoClobbers ==
    naked => (clobbers = <<>> /\ \A k \in 1..Len(irs) : irs[k].clobbers = <<>>)

C8_Witness ==
    /\ naked /\ Emitted # {}
    /\ this.regs # {} /\ code.moreRegs # {}
    /\ ~code.clobbersMemory /\ clobbers_mem

\* C9: the step that meets a FrameRelative operand whose variable is not
\* frame relative reports "argument not frame relative" and returns, adding
\* nothing to the IRState; no record exists for a statement with that error.
C9_NotFrameRelativeAbandons ==
    /\ [][(pc = "args" /\ i < dim /\ code.args[i + 1].type = Arg_FrameRelative
                /\ ~code.args[i + 1].expr.frOk)
            => /\ errors' = Append(errors, [stmt |-> cur,
                                            msg |-> "argument not frame relative"])
               /\ pc' = "ret"
               /\ irs' = irs]_vars
    /\ [](\A e \in 1..Len(errors) : \A k \in 1..Len(irs) : irs[k].loc # errors[e].stmt)

C9_Witness ==
    /\ pc = "ret" /\ this.asmcode # 0
    /\ i >= 1 /\ i < dim
    /\ inputs # <<>>
    /\ errors # <<>> /\ errors[Len(errors)].stmt = cur
    /\ Emitted = {}

\* C10: a Memory operand that has been resolved is in the output list with
\* "=m" if its direction is Output, in the output list with "+m" if Update,
\* in neither case in the input list; and in the input list with "m", not in
\* the output list, if Input.
C10_MemoryByDirection ==
    pc \in {"args", "remap", "scan", "label"} =>
        \A j \in 0..(i - 1) :
            LET a == code.args[j + 1]
            IN  a.type = Arg_Memory =>
                    CASE a.mode = Mode_Output -> Holds(outputs, j, "=m") /\ ~Has(inputs, j)
                      [] a.mode = Mode_Update -> Holds(outputs, j, "+m") /\ ~Has(inputs, j)
                      [] a.mode = Mode_Input -> Holds(inputs, j, "m") /\ ~Has(outputs, j)

C10_Witness ==
    /\ pc = "scan" /\ dim >= 2
    /\ \E a, b \in 0..(dim - 1) :
          /\ code.args[a + 1].type = Arg_Memory /\ code.args[a + 1].mode = Mode_Update
          /\ code.args[b + 1].type = Arg_Memory /\ code.args[b + 1].mode = Mode_Input
          /\ Holds(outputs, a, "+m") /\ Holds(inputs, b, "m")

\* the statement being lowered has gone through toIR and come back
Returned == pc \in {"ret", "done"}

\* a diagnostic was reported for the statement being lowered
Diagnosed == \E e \in 1..Len(errors) : errors[e].stmt = cur

\* C11: a statement with more than 10 operands gets a diagnostic that
\* abandons that statement only: the process is not aborted, arg_map is never
\* written outside its 10 slots, and once the lowering has returned a
\* diagnostic is recorded and nothing was emitted for the statement.
C11_CapacityDiagnosed ==
    (pc # "call" /\ this.asmcode # 0 /\ dim > ArgMapSize) =>
        /\ ~aborted
        /\ DOMAIN arg_map \subseteq 0..(ArgMapSize - 1)
        /\ pc # "aborted"
        /\ Returned => (Diagnosed /\ Emitted = {})

\* byte q of t is a digit the scan substitutes, and it names no operand
StrayDigit(t, q) == IsDigit(t[q]) /\ Pending(t, q - 1) /\ t[q] - ZeroChar >= dim

\* C12: a placeholder whose digit is not below the operand count is
\* diagnosed and the statement abandoned: no scan step reads a slot of
\* arg_map that was not assigned, and no record is emitted for a template
\* with such a placeholder.
C12_StrayDigitDiagnosed ==
    /\ (pc = "scan" /\ p < TplLen /\ pct /\ IsDigit(Tpl[p + 1]))
          => (Tpl[p + 1] - ZeroChar) \in DOMAIN arg_map
    /\ \A k \in Emitted : \A q \in 1..Len(entryTemplate) : ~StrayDigit(entryTemplate, q)
    /\ (Returned /\ this.asmcode # 0
            /\ \E q \in 1..Len(entryTemplate) : StrayDigit(entryTemplate, q))
          => Diagnosed

\* the clobber list of the lowering is built, and perhaps already emitted
ClobbersBuilt == pc \in {"remap", "scan", "label"} \/ Emitted # {}

\* how many entries of list l name register b
TimesNamed(l, b) == Cardinality({k \in 1..Len(l) : l[k].value = regInfo(b)})

\* the entries the loop over the explicit mask contributed: it runs first
\* and appends one entry per set bit
LowPart(l, regs) == SubSeq(l, 1, Cardinality(regs))

C14_HighMaskNamesUpperHalf ==
    (ClobbersBuilt /\ ~naked) =>
        \A b \in 0..(NumRegBits - 1) :
            /\ (TimesNamed(clobbers, b + NumRegBits) >= 1) <=> (b \in code.moreRegs)
            /\ TimesNamed(clobbers, b) = IF b \in this.regs THEN 1 ELSE 0

\* the register an entry names
RegIndex(e) == CHOOSE b \in 0..(2 * NumRegBits - 1) : e.value = regInfo(b)
IsRegEntry(e) == \E b \in 0..(2 * NumRegBits - 1) : e.value = regInfo(b)
IsMemoryEntry(e) == e.value.str = "memory"

\* entries a..b of l name registers of strictly ascending index
Ascending(l, a, b) ==
    /\ \A k \in a..b : IsRegEntry(l[k])
    /\ \A k \in a..(b - 1) : RegIndex(l[k]) < RegIndex(l[k + 1])

\* C15: in a non-naked function the clobber list is the names for the bits of
\* regs in ascending bit order, then the names contributed by moreRegs in
\* ascending order, then "memory" last if present.
C15_ClobberOrder ==
    (ClobbersBuilt /\ ~naked) =>
        LET n == Cardinality(this.regs)
            m == IF clobbers # <<>> /\ IsMemoryEntry(clobbers[Len(clobbers)])
                 THEN Len(clobbers) - 1 ELSE Len(clobbers)
        IN  /\ n <= m
            /\ Ascending(clobbers, 1, n)
            /\ {RegIndex(clobbers[k]) : k \in 1..n} = this.regs
            /\ Ascending(clobbers, n + 1, m)
            /\ \A k \in 1..m : ~IsMemoryEntry(clobbers[k])

C15_Witness ==
    /\ Emitted # {} /\ ~naked
    /\ this.regs = {1, 2} /\ code.moreRegs # {}
    /\ Len(clobbers) = 5
    /\ IsMemoryEntry(clobbers[5])

\* C16: in a non-naked function the clobber list has "memory" exactly once
\* if clobbersMemory is set or some FrameRelative operand is not an Input,
\* and not at all otherwise.
C16_MemoryClobber ==
    (ClobbersBuilt /\ ~naked) =>
        LET wanted == \/ code.clobbersMemory
                      \/ \E j \in 1..dim : /\ code.args[j].type = Arg_FrameRelative
                                           /\ code.args[j].mode # Mode_Input
            times == Cardinality({k \in 1..Len(clobbers) : IsMemoryEntry(clobbers[k])})
        IN  /\ times = IF wanted THEN 1 ELSE 0
            /\ \A k \in Emitted : irs[k].clobbers = clobbers

C16_Witness ==
    /\ Emitted # {} /\ ~naked
    /\ ~code.clobbersMemory
    /\ dim = 1 /\ code.args[1].type = Arg_FrameRelative /\ code.args[1].mode = Mode_Update
    /\ \E k \in 1..Len(clobbers) : IsMemoryEntry(clobbers[k])

\* the AsmCode of statement s of the body
StmtCode(s) == heap[body[s].asmcode]

\* the lowering of statement s is over
Lowered(s) == s < cur \/ Returned

\* C17: a label record is in the IRState only right after the instruction
\* record of a statement whose dollarLabel is not 0, and once such a
\* statement is lowered its instruction record is directly followed by its
\* label record.
C17_LabelFollowsInstruction ==
    \A k \in 1..Len(irs) :
        IF irs[k].input_p
        THEN /\ k > 1
             /\ ~irs[k - 1].input_p
             /\ irs[k - 1].loc = irs[k].loc
             /\ StmtCode(irs[k].loc).dollarLabel # 0
        ELSE (Lowered(irs[k].loc) /\ StmtCode(irs[k].loc).dollarLabel # 0)
                => (k < Len(irs) /\ irs[k + 1].input_p /\ irs[k + 1].loc = irs[k].loc)

C17_Witness ==
    /\ pc = "done" /\ Len(body) = 2
    /\ Len(irs) = 4
    /\ ~irs[1].input_p /\ irs[2].input_p /\ ~irs[3].input_p /\ irs[4].input_p
    /\ irs[2].loc = 1 /\ irs[4].loc = 2

\* C18: the names of the labels emitted in one compilation are pairwise
\* distinct.
C18_LabelNamesDistinct ==
    \A a, b \in 1..Len(irs) :
        (a # b /\ irs[a].input_p /\ irs[b].input_p) => irs[a].insn.str # irs[b].insn.str

\* an expression that is not a constant char string
Offending(e) == ~(e.op = "TOKstring" /\ e.sz = 1)
OffendingIn(l) == Cardinality({k \in 1..Len(l) : Offending(l[k])})

\* how many diagnostics with text msg were reported
Reported(msg) == Cardinality({e \in 1..Len(errors) : errors[e].msg = msg})

\* the front end has analysed expression e
Analysed(e) == Len(e.passes) >= 1 /\ e.passes[1] = "semantic"

InSemantic == pc \in {"semantic", "sem_args", "sem_clobbers", "sem_ret"}

\* C19: ExtAsmStatement::semantic is never cut short: it does not abort,
\* and when it returns every operand, constraint and clobber has been
\* analysed and the diagnostics are one for an offending template, one per
\* offending constraint and one per offending clobber.
C19_SemanticReportsAll ==
    /\ InSemantic => ~aborted
    /\ pc = "sem_ret" =>
          /\ Analysed(ext.insnTemplate)
          /\ \A k \in 1..Len(ext.args) :
                Analysed(ext.args[k]) /\ Analysed(ext.argConstraints[k])
          /\ \A k \in 1..Len(ext.clobbers) : Analysed(ext.clobbers[k])
          /\ Reported("instruction template must be a constant char string")
                = IF Offending(ext.insnTemplate) THEN 1 ELSE 0
          /\ Reported("constraint must be a constant char string")
                = OffendingIn(ext.argConstraints)
          /\ Reported("clobber specification must be a constant char string")
                = OffendingIn(ext.clobbers)

C19_Witness ==
    /\ pc = "sem_ret"
    /\ Offending(ext.insnTemplate)
    /\ Len(ext.argConstraints) = 2 /\ OffendingIn(ext.argConstraints) = 2
    /\ ext.argConstraints[1].op # ext.argConstraints[2].op
    /\ Len(ext.clobbers) = 2 /\ OffendingIn(ext.clobbers) = 1
    /\ Offending(ext.clobbers[1])
    /\ Len(errors) = 4

\* the number of leading operands that are outputs
NumOutputs == IF ext.nOutputArgs < Len(ext.args) THEN ext.nOutputArgs ELSE Len(ext.args)

\* list entry e pairs operand j with its name and its constraint
PairsOperand(e, j) ==
    /\ e.value = [how |-> "toElem", of |-> j, n |-> 0]
    /\ e.purpose.value.str = "c" \o ToString(j)
    /\ e.purpose.purpose.str = ext.argNames[j + 1]

\* C20: operand i is an output exactly when i < nOutputArgs: semantic checks
\* such an operand as a modifiable lvalue and folds the others, and the record
\* toIR hands to doAsm has operands 0..nOutputArgs-1 as its outputs and the
\* others as its inputs, in declaration order, each with its own name and constraint,
\* and the clobbers in declaration order.
C20_LeadingOperandsAreOutputs ==
    /\ pc \notin {"semantic", "sem_args"} =>
          \A k \in 1..Len(ext.args) :
              ext.args[k].passes =
                  IF k - 1 < ext.nOutputArgs
                  THEN <<"semantic", "modifiableLvalue">>
                  ELSE <<"semantic", "optimize WANTvalue|WANTinterpret">>
    /\ pc = "done" =>
          /\ Len(outputs) = NumOutputs
          /\ Len(inputs) = Len(ext.args) - NumOutputs
          /\ \A k \in 1..Len(outputs) : PairsOperand(outputs[k], k - 1)
          /\ \A k \in 1..Len(inputs) : PairsOperand(inputs[k], NumOutputs + k - 1)
          /\ Len(tree_clobbers) = Len(ext.clobbers)
          /\ \A k \in 1..Len(tree_clobbers) :
                tree_clobbers[k].value.str = "k" \o ToString(k - 1)
          /\ Len(irs) = 1
          /\ irs[1].outputs = outputs /\ irs[1].inputs = inputs
          /\ irs[1].clobbers = tree_clobbers

C20_Witness ==
    /\ pc = "done"
    /\ Len(ext.args) = 2 /\ ext.nOutputArgs = 1
    /\ ext.argNames[1] = "" /\ ext.argNames[2] # ""
    /\ ~ext.args[2].lvalue
    /\ Len(outputs) = 1 /\ Len(inputs) = 1
    /\ Len(tree_clobbers) = 2

\* statement s of the function (0 is the extended one) has been lowered
Done(s) == s < cur \/ (s = cur /\ Returned)

\* how many "not supported" diagnostics statement s got
Sorries(s) ==
    Cardinality({e \in 1..Len(errors) :
                    /\ errors[e].stmt = s
                    /\ errors[e].msg = "assembler statements are not supported on this target"})

\* C21, as stated: without a machine-specific assembler every asm statement
\* that was lowered, machine-specific or extended, got exactly one "not
\* supported" diagnostic, and the IRState holds no instruction record.
C21_NoAsmEveryStatementSorry ==
    D_NO_INLINE_ASM_AT_ALL =>
        /\ irs = <<>>
        /\ \A s \in 0..Len(body) : Sorries(s) = IF Done(s) THEN 1 ELSE 0

\* C21, amended: without a machine-specific assembler every machine-specific
\* statement that was lowered got exactly one "not supported" diagnostic and
\* no instruction record; the extended statement is lowered as in any build:
\* one record and no such diagnostic.
C21_NoAsmMachineSpecificSorry ==
    D_NO_INLINE_ASM_AT_ALL =>
        /\ \A s \in 1..Len(body) : Sorries(s) = IF Done(s) THEN 1 ELSE 0
        /\ \A k \in 1..Len(irs) : irs[k].loc = 0
        /\ Sorries(0) = 0
        /\ Done(0) => Len(irs) = 1

C21_Witness ==
    /\ D_NO_INLINE_ASM_AT_ALL
    /\ pc = "done" /\ Len(body) = 2
    /\ Sorries(1) = 1 /\ Sorries(2) = 1
    /\ Len(errors) = 2
    /\ Len(irs) = 1 /\ irs[1].outputs # <<>>

\* the instruction records in the IRState for statement s
RecordsOf(s) == {k \in 1..Len(irs) : irs[k].loc = s /\ ~irs[k].input_p}

\* the lowering of statement s failed with a diagnostic
Failed(s) == \E e \in 1..Len(errors) : errors[e].stmt = s

\* C22: a statement whose lowering fails stops that statement only: the
\* lowering of the function is never cut short, and once it is over every
\* other statement that has code has its own instruction record, with the
\* operands and the template length of its code.
C22_FailureStopsOneStatement ==
    /\ ~aborted
    /\ pc # "aborted"
    /\ pc = "done" =>
          \A s \in 1..Len(body) :
              (body[s].asmcode # 0 /\ ~Failed(s)) =>
                  /\ Cardinality(RecordsOf(s)) = 1
                  /\ \A k \in RecordsOf(s) :
                        /\ Len(irs[k].outputs) + Len(irs[k].inputs) = Len(StmtCode(s).args)
                        /\ Len(irs[k].insn.str) = StmtCode(s).insnTemplateLen

\* the statement being lowered has a Dollar operand
HasDollar == \E j \in 1..dim : code.args[j].type = Arg_Dollar

\* the operand loop stands at a Dollar operand
AtDollar == dim <= ArgMapSize /\ i < dim /\ code.args[i + 1].type = Arg_Dollar

\* C23: a Dollar operand fails cleanly: the lowering that meets it does not
\* abort the process but returns with a diagnostic, and a statement with such
\* an operand has no instruction record.
C23_DollarFailsCleanly ==
    (this.asmcode # 0) =>
        /\ (pc = "aborted") => ~AtDollar
        /\ (Returned /\ AtDollar) => Diagnosed
        /\ HasDollar => Emitted = {}

\* the six interned constants, as a set of trees
Interned == {statics.i_cns, statics.p_cns, statics.m_cns, statics.mw_cns,
             statics.mrw_cns, statics.memory_name}

\* C24: the six interned constants are built together, by the first call
\* that reaches the initialization, and never assigned again; every
\* constraint and every "memory" clobber of every record is one of them.
C24_StaticsBuiltOnce ==
    /\ [][statics # NoStatics => statics' = statics]_vars
    /\ [](statics # NoStatics =>
            /\ <<statics.i_cns.str, statics.p_cns.str, statics.m_cns.str, statics.mw_cns.str,
                 statics.mrw_cns.str, statics.memory_name.str>>
                  = <<"i", "p", "m", "=m", "+m", "memory">>
            /\ Cardinality({t.id : t \in Interned}) = 6
            /\ \A t \in Interned : t.id # 0)
    /\ [](\A k \in 1..Len(irs) :
            /\ \A e \in 1..Len(irs[k].outputs) : irs[k].outputs[e].purpose \in Interned
            /\ \A e \in 1..Len(irs[k].inputs) : irs[k].inputs[e].purpose \in Interned
            /\ \A e \in 1..Len(irs[k].clobbers) :
                  IsMemoryEntry(irs[k].clobbers[e]) =>
                      irs[k].clobbers[e].value = statics.memory_name)

C24_Witness ==
    /\ pc = "done" /\ Len(body) = 2
    /\ \E k \in RecordsOf(1), l \in RecordsOf(2) :
          /\ irs[k].inputs # <<>> /\ irs[l].inputs # <<>>
          /\ irs[k].outputs # <<>> /\ irs[l].outputs # <<>>
          /\ irs[k].inputs[1].purpose = statics.i_cns
          /\ irs[l].inputs[1].purpose = statics.i_cns
          /\ irs[l].outputs[1].purpose = statics.mw_cns
          /\ irs[k].insn.id # irs[l].insn.id

\* the entry of list l made for operand j
EntryOf(l, j) == l[CHOOSE k \in 1..Len(l) : l[k].value.of = j]

\* C25: a LocalSize operand that has been resolved is in the input list with
\* "i", whatever its direction, and its value is the absolute value of the
\* frame size, so never negative; resolving it does not stop the process.
C25_LocalSizeIsAbsolute ==
    (this.asmcode # 0 /\ pc # "call" /\ dim <= ArgMapSize) =>
        /\ (pc = "aborted" /\ i < dim) => code.args[i + 1].type # Arg_LocalSize
        /\ pc \in {"args", "remap", "scan", "label"} =>
              \A j \in 0..(i - 1) :
                  code.args[j + 1].type = Arg_LocalSize =>
                      /\ Holds(inputs, j, "i") /\ ~Has(outputs, j)
                      /\ EntryOf(inputs, j).value.how = "integerConstant"
                      /\ EntryOf(inputs, j).value.n >= 0
                      /\ IF x_frame_offset >= 0
                         THEN EntryOf(inputs, j).value.n = x_frame_offset
                         ELSE EntryOf(inputs, j).value.n + x_frame_offset = 0

\* C26: two lowerings of one AsmCode emit the same template: the instruction
\* records of two statements that share their asmcode have equal templates.
C26_RepeatedLoweringSameTemplate ==
    \A k, l \in 1..Len(irs) :
        (/\ ~irs[k].input_p /\ ~irs[l].input_p
         /\ body[irs[k].loc].asmcode = body[irs[l].loc].asmcode)
            => irs[k].insn.str = irs[l].insn.str

\* the constraint of an operand kind that is always an input
InputConstraint(type) == IF type = Arg_Pointer THEN "p" ELSE "i"

\* C27: an Integer, Pointer, FrameRelative or LocalSize operand that has been
\* resolved is in the input list, with "i", "p", "i", "i", whatever its
\* direction, and not in the output list; the outputs are the Memory operands
\* of direction Output or Update resolved so far, and n_outputs counts them.
C27_OnlyMemoryIsOutput ==
    pc \in {"args", "remap", "scan", "label"} =>
        /\ \A j \in 0..(i - 1) :
              LET a == code.args[j + 1]
              IN  a.type \in {Arg_Integer, Arg_Pointer, Arg_FrameRelative, Arg_LocalSize} =>
                      Holds(inputs, j, InputConstraint(a.type)) /\ ~Has(outputs, j)
        /\ n_outputs = Cardinality({j \in 0..(i - 1) : IsOutputArg(code.args[j + 1])})
        /\ Len(outputs) = n_outputs

C27_Witness ==
    /\ pc = "scan" /\ dim = 2
    /\ code.args[1].type = Arg_LocalSize /\ code.args[1].mode = Mode_Output
    /\ code.args[2].type = Arg_FrameRelative /\ code.args[2].mode = Mode_Update
    /\ Len(inputs) = 2 /\ n_outputs = 0

\* every digit of the template on entry that the scan substitutes names an
\* operand
NoStrayDigit == \A q \in 1..Len(entryTemplate) : ~StrayDigit(entryTemplate, q)

\* t is template t0 with nothing but digits changed, each into a digit below n
DigitsRenumbered(t, t0, n) ==
    /\ Len(t) = Len(t0)
    /\ \A q \in 1..Len(t0) :
          t[q] # t0[q] =>
              /\ IsDigit(t0[q])
              /\ t[q] >= ZeroChar /\ t[q] <= ZeroChar + (n - 1)

\* C28: for n <= 10 operands and a template whose substituted digits are all
\* below n, the stored template during the scan and the emitted template
\* have the length of the template on entry and differ from it only where it
\* had a digit, which is now a digit in '0'..'0'+(n-1).
C28_RewriteKeepsShape ==
    /\ (pc \in {"scan", "label"} /\ dim <= ArgMapSize /\ NoStrayDigit) =>
          DigitsRenumbered(Tpl, entryTemplate, dim)
    /\ \A k \in Emitted :
          NoStrayDigit => DigitsRenumbered(irs[k].insn.str, entryTemplate, dim)

C28_Witness ==
    \E k \in Emitted :
        /\ NoStrayDigit
        /\ irs[k].insn.str # entryTemplate
        /\ \E q \in 1..Len(entryTemplate) : entryTemplate[q] = LetterA
        /\ \E q \in 2..Len(entryTemplate) :
              IsDigit(entryTemplate[q]) /\ irs[k].insn.str[q] # entryTemplate[q]

\* the lowering of the statement reported an operand that is not frame relative
NotFrameRelativeReported ==
    \E e \in 1..Len(errors) :
        errors[e].stmt = cur /\ errors[e].msg = "argument not frame relative"

\* C29: once a lowering has reported "argument not frame relative", the
\* stored template is the template it was entered with and the IRState has no
\* record of the statement, neither instruction nor label, whatever
\* dollarLabel is; the reporting step itself leaves the AsmCode alone.
C29_AbandonedLeavesNoTrace ==
    /\ [](NotFrameRelativeReported =>
            /\ Tpl = entryTemplate
            /\ \A k \in 1..Len(irs) : irs[k].loc # cur
            /\ pc \in {"ret", "call", "done"})
    /\ [][Len(errors') > Len(errors) => (heap' = heap /\ irs' = irs)]_vars

C29_Witness ==
    /\ NotFrameRelativeReported
    /\ pc = "done" /\ cur = 2
    /\ code.dollarLabel # 0
    /\ \E q \in 1..Len(Tpl) : Placeholder(Tpl, q)
    /\ irs # <<>>

\* C30: the copy syntaxCopy returns has the asmcode, refparam, naked and regs
\* of the original, and in a non-naked function the record of the copy has
\* the clobbers of the record of the original.
C30_CopyKeepsFields ==
    Len(body) = 2 =>
        /\ body[2].asmcode = body[1].asmcode
        /\ body[2].refparam = body[1].refparam
        /\ body[2].naked = body[1].naked
        /\ body[2].regs = body[1].regs
        /\ (pc = "done" /\ ~naked) =>
              \A k \in RecordsOf(1), l \in RecordsOf(2) : irs[k].clobbers = irs[l].clobbers

====
